---- MODULE Spec2Model ----
(***************************************************************************)
(* The real-time chat transport of src/src/ws/chat.py: the process-wide    *)
(* connection registry `connections`, the broadcast fan-out, the chat_ws   *)
(* session (accept, authorize, register, receive loop with idle timeout,   *)
(* cleanup), the event handlers over the message tables, and the presence  *)
(* keys the session keeps in the key/value store.                          *)
(*                                                                         *)
(* One step of the model is one resumption of a session task: the code     *)
(* between two awaits runs without interleaving (asyncio, one thread), and *)
(* the effect of the awaited call (a send, a commit, a store command) is   *)
(* part of the step that resumes from it.                                  *)
(***************************************************************************)
EXTENDS Integers, Sequences, FiniteSets, TLC

\* ------------------------------------------------------------------ bounds
\* wake-ups of the receive loops (frames received and idle timeouts), over all
\* connections; a frame's number is the id of its event and of the message it creates
MaxWakeups == 2

\* frames received in the behaviours that are checked for liveness
MaxLiveFrames == 1

\* chat.py:68, 75: the TTL of the status key, in seconds
StatusTtlSecs == 60
\* chat.py:73: the timeout of one receive_json, in seconds
IdleTimeoutSecs == 45
\* the step of the clock: the margin between the two
TickSecs == StatusTtlSecs - IdleTimeoutSecs

\* connection slots, one chat_ws call each
Conns == {1, 2}
Users == {"u1", "u2"}
Convs == {"c1", "c2"}
\* rows of conversation_participants: u1 is no participant of c2
Participants == {<<"u1", "c1">>, <<"u2", "c1">>, <<"u2", "c2">>}
\* who connects on a slot: the first connection is u1's
SlotUsers(w) == IF w = 1 THEN {"u1"} ELSE Users

MsgIds == 1..MaxWakeups
NoMsg == [absent |-> TRUE]
NoKey == [absent |-> TRUE]
NoEvent == [kind |-> "none", text |-> <<>>, id |-> 0, mode |-> "self", eid |-> 0]
NoBc == [todo |-> {}, failed |-> {}, snap |-> {}, att |-> [x \in Conns |-> 0]]
NoPend == [op |-> "none", id |-> 0, val |-> 0]

\* inbound texts, as sequences of characters
RawTexts == {<<>>, <<" ">>, <<"a">>, <<" ", "a", " ">>}

\* ------------------------------------------------------- Python values
\* conversation_id is declared `str` (chat.py:48); the id columns are
\* Mapped[UUID] (models.py:94, 101) and user.id is a UUID (users/models.py:23).
\* uuid.UUID.__eq__ answers only for another UUID, so a UUID never equals a str.
UUIDv(x) == [type |-> "UUID", val |-> x]
Strv(x) == [type |-> "str", val |-> x]
PyEq(a, b) == a.type = b.type /\ a.val = b.val

\* str.strip()
RECURSIVE LStrip(_)
LStrip(s) == IF s # <<>> /\ Head(s) = " " THEN LStrip(Tail(s)) ELSE s
RECURSIVE RStrip(_)
RStrip(s) == IF s # <<>> /\ s[Len(s)] = " " THEN RStrip(SubSeq(s, 1, Len(s) - 1)) ELSE s
Strip(s) == RStrip(LStrip(s))

\* ------------------------------------------------------------------ state
VARIABLES
    pc,           \* per connection: where its chat_ws task stands
    user, conv,   \* per connection: the authenticated user, the path parameter
    stream,       \* per connection: "open", or "gone" (peer left or server closed)
    closeCode,    \* per connection: the code chat_ws closed it with (0: none)
    cur,          \* per connection: the locals of the handler that is running
    pend,         \* per connection: the uncommitted change of its session
    bc,           \* per connection: the locals of its running broadcast: the recipients
                  \* still to serve, those whose send failed; and, for the record, the
                  \* registered set at the call and the sends attempted per connection
    sent,         \* per connection: the payloads send_json delivered to it
    connections,  \* the registry: conversation id -> set of connections
    msgs,         \* table messages (committed rows)
    lastMsg,      \* conversations.last_message_id (0: NULL)
    status,       \* store key user:{id}:status (chat.py uses database 2)
    lastSeen,     \* store key user:{id}:last_seen (0: absent)
    nEvents,      \* events received so far (the next event's id)
    nTimeouts,    \* idle timeouts so far
    idle,         \* per connection: seconds its pending receive_json has waited
    committed,    \* ids of the events whose transaction committed
    aborted,      \* <<event id, connection>> of the events whose commit failed
    trace,        \* per connection: the cleanup steps its chat_ws has performed,
                  \* after "print" when the outer except clause logged an error
    status1,      \* store key user:{id}:status in database 1 (presence.py, the routers)
    lastSeen1,    \* store key user:{id}:last_seen in database 1 (0: absent)
    ppc,          \* per user: where the user's presence_ws task stands
    query         \* the get_user_status request in flight and its answer

vars == <<pc, user, conv, stream, closeCode, cur, pend, bc, sent, connections,
          msgs, lastMsg, status, lastSeen, nEvents, nTimeouts, idle, committed,
          aborted, trace, status1, lastSeen1, ppc, query>>

ident == <<user, conv, closeCode>>
db == <<msgs, lastMsg, committed, aborted>>
store == <<status, lastSeen>>
counters == <<nEvents, nTimeouts, idle>>
store1 == <<status1, lastSeen1>>
presence == <<store1, ppc, query>>

NoQuery == [pc |-> "idle", user |-> "", status |-> "", last_seen |-> 0]

Init ==
    /\ pc = [w \in Conns |-> "new"]
    /\ user = [w \in Conns |-> "u1"]
    /\ conv = [w \in Conns |-> "c1"]
    /\ stream = [w \in Conns |-> "open"]
    /\ closeCode = [w \in Conns |-> 0]
    /\ cur = [w \in Conns |-> NoEvent]
    /\ pend = [w \in Conns |-> NoPend]
    /\ bc = [w \in Conns |-> NoBc]
    /\ sent = [w \in Conns |-> <<>>]
    /\ connections = [c \in {} |-> {}]
    /\ msgs = [m \in MsgIds |-> NoMsg]
    /\ lastMsg = [c \in Convs |-> 0]
    /\ status = [u \in Users |-> NoKey]
    /\ lastSeen = [u \in Users |-> 0]
    /\ nEvents = 0
    /\ nTimeouts = 0
    /\ idle = [w \in Conns |-> 0]
    /\ committed = {}
    /\ aborted = {}
    /\ trace = [w \in Conns |-> <<>>]
    /\ status1 = [u \in Users |-> NoKey]
    /\ lastSeen1 = [u \in Users |-> 0]
    /\ ppc = [u \in Users |-> "new"]
    /\ query = NoQuery

\* ----------------------------------------------------------- the registry
\* chat.py:63-65
Register(reg, c, w) ==
    [k \in DOMAIN reg \cup {c} |->
        IF k = c THEN (IF c \in DOMAIN reg THEN reg[c] ELSE {}) \cup {w} ELSE reg[k]]

\* chat.py:96-99, the head of chat_ws's finally block
Unregister(reg, c, w) ==
    IF c \notin DOMAIN reg THEN reg
    ELSE IF reg[c] \ {w} = {} THEN [k \in DOMAIN reg \ {c} |-> reg[k]]
    ELSE [reg EXCEPT ![c] = @ \ {w}]

\* chat.py:33-34: connections[conversation_id] -= disconnected
RemoveDisconnected(reg, c, gone) == [reg EXCEPT ![c] = @ \ gone]

\* a loop over the live set instead of its copy (the variant C4 rules out)
BroadcastTargetsLive(w) ==
    IF conv[w] \in DOMAIN connections
    THEN {x \in connections[conv[w]] : bc[w].att[x] = 0}
    ELSE {}

\* chat.py:27: the recipients still to be served are those of the copy
BroadcastTargets(w) == bc[w].todo

Registered(w) == \E c \in DOMAIN connections : w \in connections[c]

\* --------------------------------------------------------------- the store
\* chat.py:68: r.set(user_key, 'online', ex=60)
OnlineKey == [val |-> "online", ttl |-> StatusTtlSecs]
\* a renewal that writes the key anew, absent or not (the variant C37 rules out)
ExpireUpsert(k) == [val |-> "online", ttl |-> StatusTtlSecs]
\* chat.py:75: r.expire(user_key, 60) renews the TTL of a key that exists
Expire(k) == IF k = NoKey THEN NoKey ELSE [k EXCEPT !.ttl = StatusTtlSecs]

\* ------------------------------------------------------------ authorization
\* chat.py:36-44
VerifyUserInConversation(u, c) == <<u, c>> \in Participants

\* a gateway that registers whoever holds a valid token (the variant C2 rules out)
AuthorizeAnyUser(u, c, lookupRaises) == IF lookupRaises THEN "error" ELSE "in"

\* chat.py:56-61: what chat_ws does with the lookup: "in", "denied" or "error"
Authorize(u, c, lookupRaises) ==
    IF lookupRaises THEN "error"
    ELSE IF VerifyUserInConversation(u, c) THEN "in" ELSE "denied"

\* ---------------------------------------------------------------- sessions
\* the session's task moves on; a handler that has returned leaves no locals
Goto(w, p) ==
    /\ pc' = [pc EXCEPT ![w] = p]
    /\ cur' = [cur EXCEPT ![w] = IF p \in {"loop", "cl_last_seen"} THEN NoEvent ELSE @]
    /\ pend' = [pend EXCEPT ![w] = IF p \in {"loop", "cl_last_seen", "raised", "reply"}
                                   THEN NoPend ELSE @]

\* a chat_ws that returns and leaves the stream writable (the variant C30
\* rules out)
EndedLeftOpen(w) ==
    /\ pc' = [pc EXCEPT ![w] = "ended"]
    /\ UNCHANGED stream

\* A session that leaves chat_ws: the server closes the stream.
Ended(w) ==
    /\ pc' = [pc EXCEPT ![w] = "ended"]
    /\ stream' = [stream EXCEPT ![w] = "gone"]

\* chat.py:94-99: entering the finally block deregisters at once (no await)
EnterCleanup(w) ==
    /\ Goto(w, "cl_last_seen")
    /\ connections' = Unregister(connections, conv[w], w)
    /\ trace' = [trace EXCEPT ![w] = Append(@, "deregister")]

\* chat.py:92-93: an exception that no inner clause catches is printed by the
\* outer except clause, then the finally block runs
LogAndCleanup(w) ==
    /\ Goto(w, "cl_last_seen")
    /\ connections' = Unregister(connections, conv[w], w)
    /\ trace' = [trace EXCEPT ![w] = Append(Append(@, "print"), "deregister")]

\* the steps of the finally block that a session has performed
IsCleanupStep(x) == x # "print"
CleanupSteps(w) == SelectSeq(trace[w], IsCleanupStep)

\* chat.py:53-65: accept, authorize, register
ChatAccept(w, u, c, lookupRaises) ==
    /\ pc[w] = "new"
    /\ u \in SlotUsers(w)
    /\ \A v \in Conns : v < w => pc[v] # "new"
    /\ user' = [user EXCEPT ![w] = u]
    /\ conv' = [conv EXCEPT ![w] = c]
    /\ LET a == Authorize(u, c, lookupRaises) IN
       IF a = "in"
       THEN /\ connections' = Register(connections, c, w)
            /\ pc' = [pc EXCEPT ![w] = "online"]
            /\ UNCHANGED <<stream, closeCode>>
       ELSE /\ closeCode' = [closeCode EXCEPT ![w] = IF a = "denied" THEN 4003 ELSE 4000]
            /\ Ended(w)
            /\ UNCHANGED connections
    /\ UNCHANGED <<cur, pend, bc, sent, db, store, counters, trace>>
    /\ UNCHANGED presence

\* chat.py:67-68: the status key is set before the try block is entered, so an
\* error of the store here leaves chat_ws without running its finally block
MarkOnline(w, ok) ==
    /\ pc[w] = "online"
    /\ IF ok
       THEN /\ status' = [status EXCEPT ![user[w]] = OnlineKey]
            /\ pc' = [pc EXCEPT ![w] = "loop"]
            /\ UNCHANGED stream
       ELSE /\ Ended(w)
            /\ UNCHANGED status
    /\ UNCHANGED <<ident, cur, pend, bc, sent, connections, db, lastSeen, counters, trace>>
    /\ UNCHANGED presence

\* a loop that goes on after WebSocketDisconnect (the variant C29 rules out)
ReceiveDisconnectContinue(w) ==
    /\ pc[w] = "loop"
    /\ stream[w] = "gone"
    /\ UNCHANGED vars

\* chat.py:81-82: receive_json raises WebSocketDisconnect, the loop breaks
ReceiveDisconnect(w) ==
    /\ pc[w] = "loop"
    /\ stream[w] = "gone"
    /\ EnterCleanup(w)
    /\ UNCHANGED <<ident, stream, bc, sent, db, store, counters>>
    /\ UNCHANGED presence

\* chat.py:73, 92: receive_json raises something else (a frame that is not
\* JSON): neither inner except clause matches, the outer one ends the session
ReceiveError(w) ==
    /\ pc[w] = "loop"
    /\ stream[w] = "open"
    /\ LogAndCleanup(w)
    /\ UNCHANGED <<ident, stream, bc, sent, db, store, counters>>
    /\ UNCHANGED presence

\* chat.py:74-75: no frame for 45 s; the TTL is renewed. An error of the store
\* is not caught by the inner clauses and ends the session.
IdleTimeout(w, ok) ==
    /\ pc[w] = "loop"
    /\ nEvents + nTimeouts < MaxWakeups
    /\ nTimeouts' = nTimeouts + 1
    /\ idle' = [idle EXCEPT ![w] = 0]
    /\ IF ok
       THEN /\ status' = [status EXCEPT ![user[w]] = Expire(@)]
            /\ Goto(w, "ping")
            /\ UNCHANGED <<connections, trace>>
       ELSE /\ LogAndCleanup(w)
            /\ UNCHANGED status
    /\ UNCHANGED <<ident, stream, bc, sent, db, lastSeen, nEvents>>
    /\ UNCHANGED presence

PingPayload == [event |-> "ping", id |-> 0, by |-> "", mode |-> "", eid |-> 0]

\* a loop that goes on after a failed ping (the variant C20 rules out)
PingKeepsGoing(w) ==
    /\ pc[w] = "ping"
    /\ IF stream[w] = "open"
       THEN sent' = [sent EXCEPT ![w] = Append(@, PingPayload)]
       ELSE UNCHANGED sent
    /\ Goto(w, "loop")
    /\ UNCHANGED <<ident, stream, bc, connections, db, store, counters, trace>>
    /\ UNCHANGED presence

\* chat.py:76-80: the unsolicited ping; a failed send breaks the loop
Ping(w) ==
    /\ pc[w] = "ping"
    /\ IF stream[w] = "open"
       THEN /\ sent' = [sent EXCEPT ![w] = Append(@, PingPayload)]
            /\ Goto(w, "loop")
            /\ UNCHANGED <<connections, trace>>
       ELSE /\ EnterCleanup(w)
            /\ UNCHANGED sent
    /\ UNCHANGED <<ident, stream, bc, db, store, counters>>
    /\ UNCHANGED presence

\* chat.py:101: last_seen is written; an error of the store skips the delete
CleanupLastSeen(w, ok) ==
    /\ pc[w] = "cl_last_seen"
    /\ IF ok
       THEN /\ lastSeen' = [lastSeen EXCEPT ![user[w]] = 1]
            /\ trace' = [trace EXCEPT ![w] = Append(@, "last_seen")]
            /\ pc' = [pc EXCEPT ![w] = "cl_delete"]
            /\ UNCHANGED stream
       ELSE /\ Ended(w)
            /\ UNCHANGED <<lastSeen, trace>>
    /\ UNCHANGED <<ident, cur, pend, bc, sent, connections, db, status, counters>>
    /\ UNCHANGED presence

\* chat.py:102-104: the status key is deleted
CleanupDelete(w, ok) ==
    /\ pc[w] = "cl_delete"
    /\ IF ok
       THEN /\ status' = [status EXCEPT ![user[w]] = NoKey]
            /\ trace' = [trace EXCEPT ![w] = Append(@, "delete")]
       ELSE UNCHANGED <<status, trace>>
    /\ Ended(w)
    /\ UNCHANGED <<ident, cur, pend, bc, sent, connections, db, lastSeen, counters>>
    /\ UNCHANGED presence

\* ------------------------------------------------------------ environment
\* the peer leaves (close frame or lost link): sends fail from now on
ClientGone(w) ==
    /\ pc[w] \notin {"new", "ended"}
    /\ stream[w] = "open"
    /\ stream' = [stream EXCEPT ![w] = "gone"]
    /\ UNCHANGED <<pc, ident, cur, pend, bc, sent, connections, db, store, counters, trace>>
    /\ UNCHANGED presence

\* ------------------------------------------------------------------ events
\* The ids a client names are those of the events before the last one: each is
\* the id of a message or of none; 0 stands for a missing message_id.
EventIds == 0..(MaxWakeups - 1)

\* chat.py:109-115: the discriminators that handle_websocket_event has a branch for
KnownKinds == {"new_message", "read_message", "edit_message", "delete_message"}

\* The decoded envelope: text <<>> for a missing text (data.get('text', '')),
\* mode "self" for a missing mode, kind "missing" for a missing discriminator
\* (data.get('event') is None).
Events ==
    [kind : {"new_message"}, text : RawTexts, id : {0}, mode : {"self"}]
    \cup [kind : {"read_message"}, text : {<<>>}, id : EventIds, mode : {"self"}]
    \cup [kind : {"edit_message"}, text : {<<" ">>, <<"b">>}, id : EventIds, mode : {"self"}]
    \cup [kind : {"delete_message"}, text : {<<>>}, id : EventIds, mode : {"self", "all"}]
    \cup [kind : {"typing", "missing"}, text : {<<>>}, id : {0}, mode : {"self"}]

Step(nextPc, p) == [pc |-> nextPc, pend |-> p]
Return == Step("loop", NoPend)

\* session.get(MessageModel, message_id): the committed row, or None
GetMessage(id) == IF id \in MsgIds THEN msgs[id] ELSE NoMsg

\* a row that is born with an edit timestamp (the variant C13 rules out)
NewMessageRowStamped(w, text) ==
    [conv |-> conv[w], sender |-> user[w], text |-> text, is_read |-> FALSE,
     is_edited |-> FALSE, edited_at |-> 1, deleted_for |-> <<>>]

\* chat.py:123-127 with the column defaults of models.py:113-141
NewMessageRow(w, text) ==
    [conv |-> conv[w], sender |-> user[w], text |-> text, is_read |-> FALSE,
     is_edited |-> FALSE, edited_at |-> 0, deleted_for |-> <<>>]

\* a handler that takes the text as it came (the variant C9 rules out)
HandleNewMessageUnstripped(w, e, eid) ==
    IF e.text = <<>> THEN [pc |-> "loop", pend |-> NoPend]
    ELSE [pc |-> "commit",
          pend |-> [op |-> "insert", id |-> eid,
                    val |-> [conv |-> conv[w], sender |-> user[w], text |-> e.text,
                             is_read |-> FALSE, is_edited |-> FALSE, edited_at |-> 0,
                             deleted_for |-> <<>>]]]

\* chat.py:118-133: up to the commit
HandleNewMessage(w, e, eid) ==
    LET text == Strip(e.text) IN
    IF text = <<>> THEN Return
    ELSE Step("commit", [op |-> "insert", id |-> eid, val |-> NewMessageRow(w, text)])

\* chat.py:156: msg.conversation_id == conversation_id, a UUID column against
\* the str path parameter
SameConversation(msg, w) == PyEq(UUIDv(msg.conv), Strv(conv[w]))

\* msg.sender_id == user.id, two UUIDs
IsSender(msg, w) == PyEq(UUIDv(msg.sender), UUIDv(user[w]))

\* a handler that marks any message read, whatever its conversation (the
\* variant C40 rules out)
HandleReadMessageAnyConversation(w, e, msg) ==
    IF msg # NoMsg /\ ~IsSender(msg, w)
    THEN [pc |-> "commit", pend |-> [op |-> "read", id |-> e.id, val |-> 0]]
    ELSE [pc |-> "loop", pend |-> NoPend]

\* chat.py:150-157: from the loaded row to the commit
HandleReadMessage(w, e, msg) ==
    IF msg # NoMsg /\ SameConversation(msg, w) /\ ~IsSender(msg, w)
    THEN Step("commit", [op |-> "read", id |-> e.id, val |-> 0])
    ELSE Return

\* a handler that lets any caller edit any message (the variant C12 rules out)
HandleEditMessageAnyCaller(w, e, eid, msg) ==
    IF msg # NoMsg
    THEN [pc |-> "commit", pend |-> [op |-> "edit", id |-> e.id, val |-> <<e.text, eid>>]]
    ELSE [pc |-> "loop", pend |-> NoPend]

\* chat.py:174-178
HandleEditMessage(w, e, eid, msg) ==
    IF msg # NoMsg /\ IsSender(msg, w) /\ SameConversation(msg, w)
    THEN Step("commit", [op |-> "edit", id |-> e.id, val |-> <<e.text, eid>>])
    ELSE Return

\* user.id in msg.deleted_for
InList(u, list) == \E i \in 1..Len(list) : list[i] = u

\* a handler that lets any caller delete any message for all (the variant C16
\* rules out)
HandleDeleteMessageAnyCaller(w, e, msg) ==
    IF msg # NoMsg /\ e.mode = "all"
    THEN [pc |-> "commit", pend |-> [op |-> "delete_all", id |-> e.id, val |-> 0]]
    ELSE [pc |-> "loop", pend |-> NoPend]

\* chat.py:200-216
HandleDeleteMessage(w, e, msg) ==
    IF msg = NoMsg \/ ~SameConversation(msg, w) THEN Return
    ELSE IF e.mode = "self"
         THEN IF ~InList(user[w], msg.deleted_for)
              THEN Step("commit", [op |-> "delete_self", id |-> e.id,
                                   val |-> Append(msg.deleted_for, user[w])])
              ELSE Step("reply", NoPend)
    ELSE IF e.mode = "all" /\ IsSender(msg, w)
         THEN Step("commit", [op |-> "delete_all", id |-> e.id, val |-> 0])
    ELSE Return

\* a dispatcher that raises on a discriminator it does not know (the variant
\* C21 rules out)
HandleWebsocketEventStrict(w, e, eid) ==
    CASE e.kind = "new_message" -> HandleNewMessage(w, e, eid)
      [] e.kind \in KnownKinds \ {"new_message"} ->
            IF e.id = 0 \/ (e.kind = "edit_message" /\ Strip(e.text) = <<>>)
            THEN [pc |-> "loop", pend |-> NoPend] ELSE [pc |-> "load", pend |-> NoPend]
      [] OTHER -> [pc |-> "raised", pend |-> NoPend]

\* chat.py:106-116 and each handler up to its first await
HandleWebsocketEvent(w, e, eid) ==
    CASE e.kind = "new_message" -> HandleNewMessage(w, e, eid)
      [] e.kind = "read_message" -> IF e.id = 0 THEN Return ELSE Step("load", NoPend)
      [] e.kind = "edit_message" ->
            IF e.id = 0 \/ Strip(e.text) = <<>> THEN Return ELSE Step("load", NoPend)
      [] e.kind = "delete_message" -> IF e.id = 0 THEN Return ELSE Step("load", NoPend)
      [] OTHER -> Return

\* the handler's code after session.get has answered
AfterLoad(w, e, msg) ==
    CASE e.kind = "read_message" -> HandleReadMessage(w, e, msg)
      [] e.kind = "edit_message" -> HandleEditMessage(w, e, e.eid, msg)
      [] e.kind = "delete_message" -> HandleDeleteMessage(w, e, msg)
      [] OTHER -> Return

\* ------------------------------------------------------------ transactions
\* the rows after the session's change is committed. deleted_for is a plain
\* ARRAY column (models.py:119-123): the unit of work does not see the in-place
\* append of chat.py:206, so the commit of line 207 writes nothing
CommitMessages(p) ==
    CASE p.op = "insert" -> [msgs EXCEPT ![p.id] = p.val]
      [] p.op = "read" -> [msgs EXCEPT ![p.id].is_read = TRUE]
      [] p.op = "edit" -> [msgs EXCEPT ![p.id].text = p.val[1],
                                         ![p.id].is_edited = TRUE,
                                         ![p.id].edited_at = p.val[2]]
      [] p.op = "delete_self" -> msgs
      [] p.op = "delete_all" -> [msgs EXCEPT ![p.id] = NoMsg]
      [] OTHER -> msgs

\* a delete that leaves conversations.last_message_id as it is (the variant
\* C17 rules out)
KeepPointerOnDelete(k) == lastMsg

\* models.py:31-35: last_message_id is a foreign key ON DELETE SET NULL, so the
\* DELETE of message k clears every pointer to it in the same transaction
SetNullOnDelete(k) == [c \in Convs |-> IF lastMsg[c] = k THEN 0 ELSE lastMsg[c]]

\* chat.py:131-133 and the foreign key's action
CommitLastMessage(p, c) ==
    CASE p.op = "insert" -> [lastMsg EXCEPT ![c] = p.id]
      [] p.op = "delete_all" -> SetNullOnDelete(p.id)
      [] OTHER -> lastMsg

\* an UPDATE or DELETE whose row is gone fails the flush of the commit
RowMissing(p) == p.op \in {"read", "edit", "delete_all"} /\ msgs[p.id] = NoMsg

\* where the handler goes once its commit has returned
AfterCommit(p) == IF p.op = "delete_self" THEN "reply" ELSE "broadcast"

\* a handler that swallows the failure and broadcasts (the variant C3 rules out)
AfterCommitFailureBroadcast(p) == "broadcast"

\* a handler that swallows the failure and says nothing (the variant C8 rules out)
AfterCommitFailureSilent(p) == "loop"

\* where the handler goes when its commit raised: the exception leaves the handler
AfterCommitFailure(p) == "raised"

\* ---------------------------------------------------------------- payloads
Payload(ev, id, by, mode, eid) == [event |-> ev, id |-> id, by |-> by, mode |-> mode, eid |-> eid]

\* chat.py:137-148, 160-164, 181-191, 218-222
BroadcastPayload(w) ==
    LET e == cur[w] IN
    CASE e.kind = "new_message" -> Payload("new_message", e.eid, user[w], "", e.eid)
      [] e.kind = "read_message" -> Payload("message_read", e.id, user[w], "", e.eid)
      [] e.kind = "edit_message" -> Payload("message_edited", e.id, user[w], "", e.eid)
      [] OTHER -> Payload("message_deleted", e.id, user[w], "all", e.eid)

\* chat.py:209-213
ReplyPayload(w) == Payload("message_deleted", cur[w].id, user[w], "self", cur[w].eid)

\* chat.py:87-90
ErrorPayload(w) == Payload("error", 0, "", "", cur[w].eid)

\* ------------------------------------------------------------ handler steps
\* chat.py:73, 84-85: a frame arrives and its handler runs to its first await
Receive(w, e) ==
    /\ pc[w] = "loop"
    /\ stream[w] = "open"
    /\ nEvents + nTimeouts < MaxWakeups
    /\ nEvents' = nEvents + 1
    /\ idle' = [idle EXCEPT ![w] = 0]
    /\ LET eid == nEvents + 1
           r == HandleWebsocketEvent(w, e, eid) IN
       /\ pc' = [pc EXCEPT ![w] = r.pc]
       /\ cur' = [cur EXCEPT ![w] = IF r.pc = "loop" THEN NoEvent
                                     ELSE [kind |-> e.kind, text |-> Strip(e.text),
                                           id |-> e.id, mode |-> e.mode, eid |-> eid]]
       /\ pend' = [pend EXCEPT ![w] = r.pend]
    /\ UNCHANGED <<ident, stream, bc, sent, connections, db, store, nTimeouts, trace>>
    /\ UNCHANGED presence

\* chat.py:135: a commit that failed is never followed by session.rollback()
SessionBroken(w) == \E k \in MsgIds : <<k, w>> \in aborted

\* chat.py:155, 174, 200: session.get answers and the handler goes on; on a
\* session whose commit has failed it may raise instead (the transaction that
\* the failed flush rolled back is still the session's), and the exception
\* leaves the handler
Load(w, ok) ==
    /\ pc[w] = "load"
    /\ ok \/ SessionBroken(w)
    /\ IF ok
       THEN LET r == AfterLoad(w, cur[w], GetMessage(cur[w].id)) IN
            /\ pc' = [pc EXCEPT ![w] = r.pc]
            /\ cur' = [cur EXCEPT ![w] = IF r.pc = "loop" THEN NoEvent ELSE @]
            /\ pend' = [pend EXCEPT ![w] = r.pend]
       ELSE Goto(w, "raised")
    /\ UNCHANGED <<ident, stream, bc, sent, connections, db, store, counters, trace>>
    /\ UNCHANGED presence

\* chat.py:135, 158, 179, 207, 216: session.commit() lands the change or raises
Commit(w, ok) ==
    /\ pc[w] = "commit"
    /\ IF ok /\ ~RowMissing(pend[w])
       THEN /\ msgs' = CommitMessages(pend[w])
            /\ lastMsg' = CommitLastMessage(pend[w], conv[w])
            /\ committed' = committed \cup {cur[w].eid}
            /\ Goto(w, AfterCommit(pend[w]))
            /\ UNCHANGED aborted
       ELSE /\ aborted' = aborted \cup {<<cur[w].eid, w>>}
            /\ Goto(w, AfterCommitFailure(pend[w]))
            /\ UNCHANGED <<msgs, lastMsg, committed>>
    /\ UNCHANGED <<ident, stream, bc, sent, connections, store, counters, trace>>
    /\ UNCHANGED presence

\* a broadcast that waits until no other broadcast is sending (the variant C31
\* rules out)
BroadcastStartSerial(w) ==
    /\ pc[w] = "broadcast"
    /\ \A v \in Conns : pc[v] # "send"
    /\ IF conv[w] \notin DOMAIN connections
       THEN /\ Goto(w, "loop")
            /\ UNCHANGED bc
       ELSE /\ Goto(w, "send")
            /\ bc' = [bc EXCEPT ![w] = [todo |-> connections[conv[w]], failed |-> {},
                                        snap |-> connections[conv[w]], att |-> NoBc.att]]
    /\ UNCHANGED <<ident, stream, sent, connections, db, store, counters, trace>>
    /\ UNCHANGED presence

\* a broadcast to every registered connection, whatever its conversation (the
\* variant C39 rules out)
BroadcastStartAll(w) ==
    /\ pc[w] = "broadcast"
    /\ IF conv[w] \notin DOMAIN connections
       THEN /\ Goto(w, "loop")
            /\ UNCHANGED bc
       ELSE /\ Goto(w, "send")
            /\ bc' = [bc EXCEPT ![w] = [todo |-> UNION {connections[c] : c \in DOMAIN connections},
                                        failed |-> {},
                                        snap |-> UNION {connections[c] : c \in DOMAIN connections},
                                        att |-> NoBc.att]]
    /\ UNCHANGED <<ident, stream, sent, connections, db, store, counters, trace>>
    /\ UNCHANGED presence

\* chat.py:22-26: broadcast is called; it returns at once for an unknown
\* conversation, else it copies the set
BroadcastStart(w) ==
    /\ pc[w] = "broadcast"
    /\ IF conv[w] \notin DOMAIN connections
       THEN /\ Goto(w, "loop")
            /\ UNCHANGED bc
       ELSE /\ Goto(w, "send")
            /\ bc' = [bc EXCEPT ![w] = [todo |-> connections[conv[w]], failed |-> {},
                                        snap |-> connections[conv[w]], att |-> NoBc.att]]
    /\ UNCHANGED <<ident, stream, sent, connections, db, store, counters, trace>>
    /\ UNCHANGED presence

\* a loop that a failed send ends (the variant C5 rules out)
AfterSendFailureAbort(b, x) ==
    [b EXCEPT !.todo = {}, !.failed = @ \cup {x}, !.att[x] = @ + 1]

\* chat.py:28-31: what a failed send does to the loop: the failure is noted
\* and the loop goes on
AfterSendFailure(b, x) ==
    [b EXCEPT !.todo = @ \ {x}, !.failed = @ \cup {x}, !.att[x] = @ + 1]

\* chat.py:27-31: one send of the loop over the copy
BroadcastSend(w, x) ==
    /\ pc[w] = "send"
    /\ x \in BroadcastTargets(w)
    /\ IF stream[x] = "open"
       THEN /\ sent' = [sent EXCEPT ![x] = Append(@, BroadcastPayload(w))]
            /\ bc' = [bc EXCEPT ![w].todo = @ \ {x}, ![w].att[x] = @ + 1]
       ELSE /\ bc' = [bc EXCEPT ![w] = AfterSendFailure(@, x)]
            /\ UNCHANGED sent
    /\ UNCHANGED <<pc, ident, stream, cur, pend, connections, db, store, counters, trace>>
    /\ UNCHANGED presence

\* chat.py:33-34: the loop is over; the failed connections are taken out of the
\* conversation's set (a KeyError when the entry is gone by now)
BroadcastFinish(w) ==
    /\ pc[w] = "send"
    /\ BroadcastTargets(w) = {}
    /\ IF bc[w].failed = {}
       THEN /\ Goto(w, "loop")
            /\ UNCHANGED connections
       ELSE IF conv[w] \in DOMAIN connections
       THEN /\ connections' = RemoveDisconnected(connections, conv[w], bc[w].failed)
            /\ Goto(w, "loop")
       ELSE /\ Goto(w, "raised")
            /\ UNCHANGED connections
    /\ bc' = [bc EXCEPT ![w] = NoBc]
    /\ UNCHANGED <<ident, stream, sent, db, store, counters, trace>>
    /\ UNCHANGED presence

\* a session that swallows the failure of the error event and takes the next
\* frame (the variant C33 rules out)
SendToRequesterSwallow(w) ==
    /\ pc[w] \in {"reply", "raised"}
    /\ IF stream[w] = "open"
       THEN /\ sent' = [sent EXCEPT ![w] = Append(@, IF pc[w] = "reply" THEN ReplyPayload(w)
                                                     ELSE ErrorPayload(w))]
            /\ Goto(w, "loop")
       ELSE IF pc[w] = "reply"
       THEN /\ Goto(w, "raised")
            /\ UNCHANGED sent
       ELSE /\ Goto(w, "loop")
            /\ UNCHANGED sent
    /\ UNCHANGED <<ident, stream, bc, connections, db, store, counters, trace>>
    /\ UNCHANGED presence

\* chat.py:209-213 and 86-90: a send to the requester alone. delete_message
\* mode self answers with message_deleted; a handler that raised (this reply's
\* own failure included) is answered with an error event, and a failure of
\* that send ends the session (chat.py:92)
SendToRequester(w) ==
    /\ pc[w] \in {"reply", "raised"}
    /\ IF stream[w] = "open"
       THEN /\ sent' = [sent EXCEPT ![w] = Append(@, IF pc[w] = "reply" THEN ReplyPayload(w)
                                                     ELSE ErrorPayload(w))]
            /\ Goto(w, "loop")
            /\ UNCHANGED <<connections, trace>>
       ELSE IF pc[w] = "reply"
       THEN /\ Goto(w, "raised")
            /\ UNCHANGED <<sent, connections, trace>>
       ELSE /\ LogAndCleanup(w)
            /\ UNCHANGED sent
    /\ UNCHANGED <<ident, stream, bc, db, store, counters>>
    /\ UNCHANGED presence

\* ------------------------------------------------------- the REST endpoint
\* messages/router.py:184-200, DELETE /api/v1/messages/{message_id}/all: the
\* request of user u for message k, as one transaction. A missing row answers
\* 404 and a caller who is not the sender 403; neither changes anything, and
\* the endpoint sends nothing to the chat connections.
DeleteMessageForAll(u, k) ==
    /\ IF GetMessage(k) # NoMsg /\ PyEq(UUIDv(GetMessage(k).sender), UUIDv(u))
       THEN /\ msgs' = [msgs EXCEPT ![k] = NoMsg]
            /\ lastMsg' = SetNullOnDelete(k)
       ELSE UNCHANGED <<msgs, lastMsg>>
    /\ UNCHANGED <<pc, ident, stream, cur, pend, bc, sent, connections, committed, aborted,
                   store, counters, trace>>
    /\ UNCHANGED presence

\* ---------------------------------------------------------- specification
Next ==
    \/ \E w \in Conns, u \in Users, c \in Convs, b \in BOOLEAN : ChatAccept(w, u, c, b)
    \/ \E w \in Conns, ok \in BOOLEAN : MarkOnline(w, ok)
    \/ \E w \in Conns, e \in Events : Receive(w, e)
    \/ \E w \in Conns : ReceiveDisconnect(w)
    \/ \E w \in Conns : ReceiveError(w)
    \/ \E w \in Conns, ok \in BOOLEAN : IdleTimeout(w, ok)
    \/ \E w \in Conns : Ping(w)
    \/ \E w \in Conns, ok \in BOOLEAN : Load(w, ok)
    \/ \E w \in Conns, ok \in BOOLEAN : Commit(w, ok)
    \/ \E w \in Conns : BroadcastStart(w)
    \/ \E w \in Conns, x \in Conns : BroadcastSend(w, x)
    \/ \E w \in Conns : BroadcastFinish(w)
    \/ \E w \in Conns : SendToRequester(w)
    \/ \E w \in Conns, ok \in BOOLEAN : CleanupLastSeen(w, ok)
    \/ \E w \in Conns, ok \in BOOLEAN : CleanupDelete(w, ok)
    \/ \E w \in Conns : ClientGone(w)

Spec == Init /\ [][Next]_vars

\* The chat sessions together with the REST endpoint, over transports that stay
\* up: no peer leaves, no frame is malformed and no session idles, so that the
\* message tables are what the behaviours differ in.
NextRest ==
    \/ \E w \in Conns, u \in Users, c \in Convs, b \in BOOLEAN : ChatAccept(w, u, c, b)
    \/ \E w \in Conns, ok \in BOOLEAN : MarkOnline(w, ok)
    \/ \E w \in Conns, e \in Events : Receive(w, e)
    \/ \E w \in Conns, ok \in BOOLEAN : Load(w, ok)
    \/ \E w \in Conns, ok \in BOOLEAN : Commit(w, ok)
    \/ \E w \in Conns : BroadcastStart(w)
    \/ \E w \in Conns, x \in Conns : BroadcastSend(w, x)
    \/ \E w \in Conns : BroadcastFinish(w)
    \/ \E w \in Conns : SendToRequester(w)
    \/ \E u \in Users, k \in MsgIds : DeleteMessageForAll(u, k)

SpecRest == Init /\ [][NextRest]_vars

\* ------------------------------------------------------------- the clock
\* the store's side of the TTL: a key whose time was up is gone. A key whose
\* time runs out at this very tick is still there, with ttl 0, so that a
\* renewal due at the same instant finds it.
Age(k) ==
    IF k = NoKey \/ k.ttl = 0 THEN NoKey ELSE [k EXCEPT !.ttl = @ - TickSecs]

\* TickSecs seconds pass while every session waits in receive_json (the code
\* between two waits takes no time); a wait that has lasted IdleTimeoutSecs
\* times out before more time passes
Tick ==
    /\ \A w \in Conns : pc[w] \in {"new", "loop", "ended"}
    /\ \E w \in Conns : pc[w] = "loop"
    /\ \A w \in Conns : pc[w] = "loop" => idle[w] < IdleTimeoutSecs
    /\ idle' = [w \in Conns |-> IF pc[w] = "loop" THEN idle[w] + TickSecs ELSE idle[w]]
    /\ status' = [u \in Users |-> Age(status[u])]
    /\ UNCHANGED <<pc, ident, stream, cur, pend, bc, sent, connections, db, lastSeen,
                   nEvents, nTimeouts, trace>>
    /\ UNCHANGED presence

\* chat.py:73: wait_for gives up after IdleTimeoutSecs, and hands over a frame
\* that comes before that
WaitTimesOut(w) == idle[w] >= IdleTimeoutSecs /\ IdleTimeout(w, TRUE)
FrameInTime(w, e) == idle[w] < IdleTimeoutSecs /\ Receive(w, e)

\* frames that handle_websocket_event ignores (chat.py:109-116 has no branch
\* for them)
IgnoredEvents == {e \in Events : e.kind \notin KnownKinds}

\* Sessions on transports that stay up, under the clock: users connect, send
\* frames that are no chat events, or stay silent.
NextClock ==
    \/ \E w \in Conns, u \in Users, c \in Convs : ChatAccept(w, u, c, FALSE)
    \/ \E w \in Conns : MarkOnline(w, TRUE)
    \/ \E w \in Conns, e \in IgnoredEvents : FrameInTime(w, e)
    \/ \E w \in Conns : WaitTimesOut(w)
    \/ \E w \in Conns : Ping(w)
    \/ Tick

SpecClock == Init /\ [][NextClock]_vars

\* ------------------------------------------- presence_ws and the status query
\* presence.py:26: r.set(user_key, 'online'), a key without a TTL
UntimedKey == [val |-> "online", ttl |-> -1]

chat == <<pc, ident, stream, cur, pend, bc, sent, connections, db, store, counters, trace>>

\* presence.py:22-26: accept, then the status key is set in database 1. The
\* call stands before the try block: an error of the store ends presence_ws
\* with nothing written.
PresenceAccept(u, ok) ==
    /\ ppc[u] = "new"
    /\ IF ok
       THEN /\ status1' = [status1 EXCEPT ![u] = UntimedKey]
            /\ ppc' = [ppc EXCEPT ![u] = "expire"]
       ELSE /\ ppc' = [ppc EXCEPT ![u] = "ended"]
            /\ UNCHANGED status1
    /\ UNCHANGED <<chat, lastSeen1, query>>

\* presence.py:32: the head of every turn of the loop gives the key its TTL; an
\* error of the store is caught by line 45 and the finally block runs
PresenceExpire(u, ok) ==
    /\ ppc[u] = "expire"
    /\ IF ok
       THEN /\ status1' = [status1 EXCEPT ![u] = Expire(@)]
            /\ ppc' = [ppc EXCEPT ![u] = "wait"]
       ELSE /\ ppc' = [ppc EXCEPT ![u] = "cl_last_seen"]
            /\ UNCHANGED status1
    /\ UNCHANGED <<chat, lastSeen1, query>>

\* presence.py:36-40: a text frame or the 30 s timeout; the loop turns
PresenceWake(u) ==
    /\ ppc[u] = "wait"
    /\ ppc' = [ppc EXCEPT ![u] = "expire"]
    /\ UNCHANGED <<chat, store1, query>>

\* presence.py:41-43: the peer left, the loop breaks
PresenceDisconnect(u) ==
    /\ ppc[u] = "wait"
    /\ ppc' = [ppc EXCEPT ![u] = "cl_last_seen"]
    /\ UNCHANGED <<chat, store1, query>>

\* presence.py:49-50: last_seen is written; the finally block has no try of
\* its own, so an error of the store skips the delete
PresenceLastSeen(u, ok) ==
    /\ ppc[u] = "cl_last_seen"
    /\ IF ok
       THEN /\ lastSeen1' = [lastSeen1 EXCEPT ![u] = 1]
            /\ ppc' = [ppc EXCEPT ![u] = "cl_delete"]
       ELSE /\ ppc' = [ppc EXCEPT ![u] = "ended"]
            /\ UNCHANGED lastSeen1
    /\ UNCHANGED <<chat, status1, query>>

\* presence.py:52: the status key is deleted
PresenceDelete(u, ok) ==
    /\ ppc[u] = "cl_delete"
    /\ status1' = [status1 EXCEPT ![u] = IF ok THEN NoKey ELSE @]
    /\ ppc' = [ppc EXCEPT ![u] = "ended"]
    /\ UNCHANGED <<chat, lastSeen1, query>>

\* ws/router.py:17-36: GET /api/v1/users/{user_id}/status for a user that exists
GetUserStatus(u) ==
    /\ query.pc \in {"idle", "done"}
    /\ query' = [pc |-> "get_status", user |-> u, status |-> "", last_seen |-> 0]
    /\ UNCHANGED <<chat, store1, ppc>>

Answer(u, st, seen) == [pc |-> "done", user |-> u, status |-> st, last_seen |-> seen]

\* ws/router.py:38, 46: r.get is awaited outside any try, so an error of the
\* store leaves the endpoint as an unhandled exception (HTTP 500)
AfterStoreError(u) == Answer(u, "error", 0)

\* ws/router.py:38-44: r.get(user_key) on database 1
GetStatusKey(ok) ==
    /\ query.pc = "get_status"
    /\ query' = IF ~ok THEN AfterStoreError(query.user)
                ELSE IF status1[query.user] # NoKey THEN Answer(query.user, "online", 0)
                ELSE [query EXCEPT !.pc = "get_last_seen"]
    /\ UNCHANGED <<chat, store1, ppc>>

\* ws/router.py:46-65: r.get(last_seen_key) on database 1; what the sessions
\* write there is datetime.isoformat(), which fromisoformat reads back
GetLastSeenKey(ok) ==
    /\ query.pc = "get_last_seen"
    /\ query' = IF ~ok THEN AfterStoreError(query.user)
                ELSE Answer(query.user, "offline", lastSeen1[query.user])
    /\ UNCHANGED <<chat, store1, ppc>>

\* The presence of the users: their chat sessions (database 2, which answers
\* them), their presence_ws sessions (database 1) and status queries (database
\* 1, which may be down), in any interleaving.
NextStatus ==
    \/ \E w \in Conns, u \in Users, c \in Convs : ChatAccept(w, u, c, FALSE)
    \/ \E w \in Conns : MarkOnline(w, TRUE)
    \/ \E w \in Conns : ClientGone(w)
    \/ \E w \in Conns : ReceiveDisconnect(w)
    \/ \E w \in Conns : CleanupLastSeen(w, TRUE)
    \/ \E w \in Conns : CleanupDelete(w, TRUE)
    \/ \E u \in Users, ok \in BOOLEAN : PresenceAccept(u, ok)
    \/ \E u \in Users, ok \in BOOLEAN : PresenceExpire(u, ok)
    \/ \E u \in Users : PresenceWake(u)
    \/ \E u \in Users : PresenceDisconnect(u)
    \/ \E u \in Users, ok \in BOOLEAN : PresenceLastSeen(u, ok)
    \/ \E u \in Users, ok \in BOOLEAN : PresenceDelete(u, ok)
    \/ \E u \in Users : GetUserStatus(u)
    \/ \E ok \in BOOLEAN : GetStatusKey(ok)
    \/ \E ok \in BOOLEAN : GetLastSeenKey(ok)

SpecStatus == Init /\ [][NextStatus]_vars


\* ------------------------------------------------------------- fairness
\* the link is lost without a close frame: receive_json keeps waiting, sends
\* fail from now on
LinkLost(w) ==
    /\ pc[w] \notin {"new", "ended"}
    /\ stream[w] = "open"
    /\ stream' = [stream EXCEPT ![w] = "lost"]
    /\ UNCHANGED <<pc, ident, cur, pend, bc, sent, connections, db, store, counters, trace>>
    /\ UNCHANGED presence

\* chat.py:73-75 on a lost link: no frame can come, so the wait of 45 s runs
\* out; the tick is the peer's last and is not counted as a wake-up
LostTimeout(w, ok) ==
    /\ pc[w] = "loop"
    /\ stream[w] = "lost"
    /\ IF ok
       THEN /\ status' = [status EXCEPT ![user[w]] = Expire(@)]
            /\ Goto(w, "ping")
            /\ UNCHANGED <<connections, trace>>
       ELSE /\ LogAndCleanup(w)
            /\ UNCHANGED status
    /\ UNCHANGED <<ident, stream, bc, sent, db, lastSeen, counters>>
    /\ UNCHANGED presence

\* the steps that the event loop owes a session: every awaited call returns
\* (the store answers the cleanup), a closed stream is noticed by receive_json
\* and the timer of a wait fires when no frame can come
Progress(w) ==
    \/ ReceiveDisconnect(w)
    \/ \E ok \in BOOLEAN : LostTimeout(w, ok)
    \/ Ping(w)
    \/ \E ok \in BOOLEAN : Load(w, ok)
    \/ \E ok \in BOOLEAN : Commit(w, ok)
    \/ BroadcastStart(w)
    \/ \E x \in Conns : BroadcastSend(w, x)
    \/ BroadcastFinish(w)
    \/ SendToRequester(w)
    \/ CleanupLastSeen(w, TRUE)
    \/ CleanupDelete(w, TRUE)

\* frames enough to take a session through every await of its handlers: a
\* message to store and broadcast, and an event that names a message
LiveEvents ==
    {e \in Events : \/ e.kind = "new_message" /\ e.text = <<"a">>
                    \/ e.kind = "read_message"}

FrameLive(w, e) == nEvents < MaxLiveFrames /\ Receive(w, e)

\* The sessions under a fair event loop, with a store that answers and peers
\* that send well-formed frames: a peer leaves, with or without a close frame,
\* at any point of a handler; the only tick is that of a lost link.
NextLive ==
    \/ \E w \in Conns, u \in Users, c \in Convs : ChatAccept(w, u, c, FALSE)
    \/ \E w \in Conns : MarkOnline(w, TRUE)
    \/ \E w \in Conns, e \in LiveEvents : FrameLive(w, e)
    \/ \E w \in Conns : ReceiveDisconnect(w)
    \/ \E w \in Conns, ok \in BOOLEAN : LostTimeout(w, ok)
    \/ \E w \in Conns : Ping(w)
    \/ \E w \in Conns, ok \in BOOLEAN : Load(w, ok)
    \/ \E w \in Conns, ok \in BOOLEAN : Commit(w, ok)
    \/ \E w \in Conns : BroadcastStart(w)
    \/ \E w \in Conns, x \in Conns : BroadcastSend(w, x)
    \/ \E w \in Conns : BroadcastFinish(w)
    \/ \E w \in Conns : SendToRequester(w)
    \/ \E w \in Conns : CleanupLastSeen(w, TRUE)
    \/ \E w \in Conns : CleanupDelete(w, TRUE)
    \/ \E w \in Conns : ClientGone(w)
    \/ \E w \in Conns : LinkLost(w)

SpecLive == Init /\ [][NextLive]_vars /\ \A w \in Conns : WF_vars(Progress(w))


\* ------------------------------------------------------- a send that blocks
\* chat.py:29: `await ws.send_json(message)` to x does not return (the peer
\* stopped reading and the buffers are full): the task that awaits it stays
\* suspended, the event loop runs the other tasks. One recipient blocks, and
\* it blocks while a broadcast is sending to it.
SendBlocks(x) ==
    /\ stream[x] = "open"
    /\ \A v \in Conns : stream[v] # "stalled"
    /\ \E w \in Conns : pc[w] = "send" /\ x \in BroadcastTargets(w)
    /\ stream' = [stream EXCEPT ![x] = "stalled"]
    /\ UNCHANGED <<pc, ident, cur, pend, bc, sent, connections, db, store, counters, trace>>
    /\ UNCHANGED presence

\* chat.py:29: a send of the loop that returns or raises
SendReturns(w, x) == stream[x] # "stalled" /\ BroadcastSend(w, x)

\* chat.py:86-90, 209: a send to the requester that returns or raises
ReplyReturns(w) == stream[w] # "stalled" /\ SendToRequester(w)

\* the steps that the event loop owes a session when sends may block: every
\* awaited call returns but a send to the blocked peer
ProgressStall(w) ==
    \/ ReceiveDisconnect(w)
    \/ \E ok \in BOOLEAN : Commit(w, ok)
    \/ BroadcastStart(w)
    \/ \E x \in Conns : SendReturns(w, x)
    \/ BroadcastFinish(w)
    \/ ReplyReturns(w)
    \/ CleanupLastSeen(w, TRUE)
    \/ CleanupDelete(w, TRUE)

\* the frames of this specification: messages to store and to broadcast
StallEvents == {e \in Events : e.kind = "new_message" /\ e.text = <<"a">>}

\* The sessions under a fair event loop, with a peer whose socket may stop
\* taking data.
NextStall ==
    \/ \E w \in Conns, u \in Users, c \in Convs : ChatAccept(w, u, c, FALSE)
    \/ \E w \in Conns : MarkOnline(w, TRUE)
    \/ \E w \in Conns, e \in StallEvents : Receive(w, e)
    \/ \E w \in Conns : ReceiveDisconnect(w)
    \/ \E w \in Conns, ok \in BOOLEAN : Commit(w, ok)
    \/ \E w \in Conns : BroadcastStart(w)
    \/ \E w \in Conns, x \in Conns : SendReturns(w, x)
    \/ \E w \in Conns : BroadcastFinish(w)
    \/ \E w \in Conns : ReplyReturns(w)
    \/ \E w \in Conns : CleanupLastSeen(w, TRUE)
    \/ \E w \in Conns : CleanupDelete(w, TRUE)
    \/ \E w \in Conns : ClientGone(w)
    \/ \E x \in Conns : SendBlocks(x)

SpecStall == Init /\ [][NextStall]_vars /\ \A w \in Conns : WF_vars(ProgressStall(w))


\* ================================================================== claims
WasRegistered(w) == pc[w] # "new" /\ closeCode[w] = 0
ActivePcs == {"loop", "ping", "load", "commit", "broadcast", "send", "reply", "raised"}
RegisteredSet(c) == IF c \in DOMAIN connections THEN connections[c] ELSE {}
SentTo(x, p) == \E i \in 1..Len(sent[x]) : sent[x][i] = p
SentForEvent(x, k) == {i \in 1..Len(sent[x]) : sent[x][i].eid = k}
LoopDone(w) == pc[w] = "send" /\ BroadcastTargets(w) = {}

\* C1: every chat_ws call that registered its connection and has returned,
\* whatever made it return, has removed the connection from the registry and
\* performed the offline transition (last_seen written, then the status key
\* deleted), each exactly once.
C1_CleanupOnEveryExit ==
    \A w \in Conns :
        (pc[w] = "ended" /\ WasRegistered(w)) =>
            /\ ~Registered(w)
            /\ CleanupSteps(w) = <<"deregister", "last_seen", "delete">>

\* C2: a connection whose user is no participant of the conversation is closed
\* with 4003 (4000 when the lookup raised), is never in the registry, is never
\* handed an event and never sent anything; a connection closed with 4000 was
\* never registered either; every registered connection is a participant's, and
\* every message row is a participant's.
C2_NonParticipantRefused ==
    /\ \A w \in Conns :
        (pc[w] # "new" /\ ~VerifyUserInConversation(user[w], conv[w])) =>
            /\ pc[w] = "ended"
            /\ closeCode[w] \in {4003, 4000}
    /\ \A w \in Conns :
        closeCode[w] # 0 =>
            /\ pc[w] = "ended"
            /\ ~Registered(w)
            /\ cur[w] = NoEvent /\ sent[w] = <<>> /\ trace[w] = <<>>
            /\ \A k \in MsgIds : <<k, w>> \notin aborted
    /\ \A w \in Conns :
        (VerifyUserInConversation(user[w], conv[w]) /\ closeCode[w] # 0) => closeCode[w] = 4000
    /\ \A c \in DOMAIN connections : \A w \in connections[c] :
        conv[w] = c /\ VerifyUserInConversation(user[w], c)
    /\ \A m \in MsgIds :
        msgs[m] # NoMsg => VerifyUserInConversation(msgs[m].sender, msgs[m].conv)

C2_Witness ==
    \E w, v \in Conns :
        /\ closeCode[w] = 4003 /\ ~VerifyUserInConversation(user[w], conv[w])
        /\ closeCode[v] = 4000 /\ ~VerifyUserInConversation(user[v], conv[v])

\* C3: every new_message, message_read, message_edited or message_deleted
\* (mode all) payload that any connection has been sent belongs to an event
\* whose transaction has committed.
C3_BroadcastAfterCommit ==
    \A x \in Conns : \A i \in 1..Len(sent[x]) :
        LET p == sent[x][i] IN
        (p.event \in {"new_message", "message_read", "message_edited"}
            \/ (p.event = "message_deleted" /\ p.mode = "all"))
        => /\ p.eid \in committed
           /\ \A w \in Conns : <<p.eid, w>> \notin aborted

C3_Witness ==
    \E x \in Conns : \E i \in 1..Len(sent[x]) :
        sent[x][i].event = "new_message" /\ sent[x][i].eid \in committed

\* C4: a broadcast attempts each connection that was registered for the
\* conversation when it was called exactly once, and no other connection: at no
\* point of the loop has a connection outside that set been tried or one inside
\* it been tried twice, and when the loop is over everyone inside it has been
\* tried.
C4_BroadcastReachesSnapshot ==
    \A w \in Conns :
        pc[w] = "send" =>
            \A x \in Conns :
                /\ bc[w].att[x] <= 1
                /\ bc[w].att[x] = 1 => x \in bc[w].snap
                /\ x \notin bc[w].snap => SentForEvent(x, cur[w].eid) = {}
                /\ LoopDone(w) /\ x \in bc[w].snap => bc[w].att[x] = 1

\* a broadcast is over that was called while w alone was registered; v, who
\* registered during it, got nothing of it
C4_Witness ==
    \E w, v \in Conns :
        /\ LoopDone(w)
        /\ bc[w].snap = {w} /\ bc[w].att[w] = 1
        /\ v \in RegisteredSet(conv[w]) /\ v # w /\ stream[v] = "open"
        /\ SentForEvent(v, cur[w].eid) = {}

\* C5: a failed send does not end the loop: when broadcast returns, every
\* connection of the copy has been tried, those whose send did not fail have the
\* payload, and the conversation's registered set is what it was just before
\* minus the connections whose send failed; no other conversation's set changes.
C5_FailedSendsRemovedOnly ==
    [][\A w \in Conns :
        (pc[w] = "send" /\ pc'[w] # "send") =>
            /\ \A x \in bc[w].snap : bc[w].att[x] = 1
            /\ \A x \in bc[w].snap \ bc[w].failed : SentTo(x, BroadcastPayload(w))
            /\ \A c \in Convs :
                RegisteredSet(c)' =
                    IF c = conv[w] THEN RegisteredSet(c) \ bc[w].failed ELSE RegisteredSet(c)
      ]_vars

C5_Witness ==
    \E w, x, y \in Conns :
        /\ LoopDone(w)
        /\ x \in bc[w].failed /\ x \in RegisteredSet(conv[w])
        /\ y \in bc[w].snap \ bc[w].failed /\ SentTo(y, BroadcastPayload(w))

\* C6: no conversation id is mapped to an empty set of connections.
C6_NoEmptyEntry == \A c \in DOMAIN connections : connections[c] # {}

\* C7: a session that is in its receive loop (handling an event included) is in
\* the registry, a session that has ended is not, and every registered
\* connection is an authorized one.
C7_RegisteredIffActive ==
    \A w \in Conns :
        /\ pc[w] \in ActivePcs => Registered(w)
        /\ pc[w] = "ended" => ~Registered(w)
        /\ Registered(w) => VerifyUserInConversation(user[w], conv[w])

\* C8: an event whose commit failed has left nothing in the tables (no row, no
\* last-message pointer), nothing about it has been sent to any connection but
\* the requester, the requester has been sent nothing about it but an error
\* event, and once the handler is over the requester has been sent that error
\* event, unless its stream was gone, in which case the session is ending.
C8_CommitFailureIsolated ==
    \A k \in MsgIds : \A w \in Conns :
        <<k, w>> \in aborted =>
            /\ k \notin committed
            /\ msgs[k] = NoMsg
            /\ \A c \in Convs : lastMsg[c] # k
            /\ \A x \in Conns : \A i \in SentForEvent(x, k) :
                x = w /\ sent[x][i] = [ErrorPayload(w) EXCEPT !.eid = k]
            /\ cur[w].eid = k => pc[w] = "raised" /\ SentForEvent(w, k) = {}
            /\ cur[w].eid # k =>
                \/ Cardinality(SentForEvent(w, k)) = 1
                \/ SentForEvent(w, k) = {} /\ stream[w] = "gone"
                      /\ pc[w] \in {"cl_last_seen", "cl_delete", "ended"}

\* the requester has its error event; the other connection of the conversation,
\* registered and open all along, has been sent nothing
C8_Witness ==
    \E k \in MsgIds : \E w, x \in Conns :
        /\ <<k, w>> \in aborted
        /\ Cardinality(SentForEvent(w, k)) = 1
        /\ x # w /\ conv[x] = conv[w] /\ Registered(x) /\ stream[x] = "open" /\ pc[x] = "loop"
        /\ sent[x] = <<>>

NewMessageEvents == {e \in Events : e.kind = "new_message"}

\* C9: a new_message whose text is empty once stripped leaves every variable but
\* the event counter as it was; any other text takes the handler to its commit,
\* and the commit adds exactly one row, is_read false, makes it the
\* conversation's last message and sends nothing yet; the broadcast that follows
\* copies the whole registered set, and when it returns every connection of the
\* copy was tried once and those whose send did not fail hold a new_message
\* payload with that row's id, the sender's connection among them.
C9_NewMessage ==
    [][\A w \in Conns :
        /\ \A e \in NewMessageEvents :
            Receive(w, e) =>
                IF Strip(e.text) = <<>>
                THEN UNCHANGED <<pc, ident, stream, cur, pend, bc, sent, connections,
                                 db, store, nTimeouts, trace>>
                ELSE /\ pc'[w] = "commit"
                     /\ pend'[w].op = "insert" /\ pend'[w].id = cur'[w].eid
                     /\ msgs[cur'[w].eid] = NoMsg
                     /\ UNCHANGED <<sent, db, connections>>
        /\ (pc[w] = "commit" /\ cur[w].kind = "new_message" /\ Commit(w, TRUE)) =>
                LET k == cur[w].eid IN
                /\ msgs' = [msgs EXCEPT ![k] = [NewMessageRow(w, cur[w].text) EXCEPT !.is_read = FALSE]]
                /\ msgs[k] = NoMsg /\ cur[w].text # <<>>
                /\ lastMsg' = [lastMsg EXCEPT ![conv[w]] = k]
                /\ pc'[w] = "broadcast"
                /\ UNCHANGED sent
        /\ (pc[w] = "broadcast" /\ cur[w].kind = "new_message" /\ pc'[w] = "send") =>
                bc'[w].snap = RegisteredSet(conv[w]) /\ bc'[w].todo = RegisteredSet(conv[w])
        /\ (pc[w] = "broadcast" /\ cur[w].kind = "new_message" /\ pc'[w] # "send"
                /\ pc'[w] # "broadcast") => RegisteredSet(conv[w]) = {}
        /\ (pc[w] = "send" /\ cur[w].kind = "new_message" /\ pc'[w] # "send") =>
                \A x \in bc[w].snap :
                    /\ bc[w].att[x] = 1
                    /\ x \notin bc[w].failed =>
                        /\ Cardinality(SentForEvent(x, cur[w].eid)) = 1
                        /\ SentTo(x, Payload("new_message", cur[w].eid, user[w], "", cur[w].eid))
      ]_vars

\* both connections of the conversation, the sender's first, hold the
\* new_message payload of the one row there is
C9_Witness ==
    \E k \in MsgIds : \E w, x \in Conns :
        /\ w # x /\ conv[w] = conv[x]
        /\ msgs[k] # NoMsg /\ msgs[k].sender = user[w] /\ ~msgs[k].is_read
        /\ lastMsg[conv[w]] = k
        /\ SentTo(w, Payload("new_message", k, user[w], "", k))
        /\ SentTo(x, Payload("new_message", k, user[w], "", k))
        /\ pc[w] = "loop"

\* C10: when read_message finds the message, the message is of the connection's
\* conversation and its sender is not the reader, the handler goes on to set the
\* read flag and commit.
C10_ReadMarksMessage ==
    [][\A w \in Conns :
        LET msg == GetMessage(cur[w].id) IN
        (/\ cur[w].kind = "read_message"
         /\ Load(w, TRUE)
         /\ msg # NoMsg
         /\ msg.conv = conv[w]
         /\ msg.sender # user[w])
        => pc'[w] = "commit" /\ pend'[w] = [op |-> "read", id |-> cur[w].id, val |-> 0]
      ]_vars

\* C11: when a participant's read_message names a message that another user
\* sent in the same conversation, the handler does not return before every open
\* registered connection of that sender has been sent message_read with the
\* message's id and the reader's id.
C11_SenderToldOfRead ==
    [][\A w \in Conns :
        LET msg == GetMessage(cur[w].id) IN
        (/\ cur[w].kind = "read_message"
         /\ Load(w, TRUE)
         /\ msg # NoMsg
         /\ msg.conv = conv[w]
         /\ msg.sender # user[w]
         /\ pc'[w] = "loop")
        => \A x \in RegisteredSet(conv[w]) :
            (user[x] = msg.sender /\ stream[x] = "open") =>
                \E i \in 1..Len(sent'[x]) :
                    /\ sent'[x][i].event = "message_read"
                    /\ sent'[x][i].id = cur[w].id
                    /\ sent'[x][i].by = user[w]
      ]_vars

EditEvents == {e \in Events : e.kind = "edit_message"}

\* C12: a step changes the text of a message only as the commit of an
\* edit_message that the message's sender sent with a text that is not empty
\* once stripped; an edit_message whose text strips to nothing changes nothing at
\* all, one whose caller is not the message's sender returns with the tables
\* and every connection's inbox as they were, and a message_edited payload is
\* never sent for anyone but the message's sender.
C12_OnlySenderEdits ==
    [][/\ \A k \in MsgIds :
            (msgs[k] # NoMsg /\ msgs'[k] # NoMsg /\ msgs'[k].text # msgs[k].text) =>
                \E w \in Conns :
                    /\ pc[w] = "commit" /\ pc'[w] = "broadcast"
                    /\ cur[w].kind = "edit_message" /\ cur[w].id = k
                    /\ user[w] = msgs[k].sender
                    /\ cur[w].text # <<>> /\ msgs'[k].text = cur[w].text
       /\ \A w \in Conns : \A e \in EditEvents :
            (Receive(w, e) /\ Strip(e.text) = <<>>) =>
                UNCHANGED <<pc, ident, stream, cur, pend, bc, sent, connections, db, store,
                            nTimeouts, trace>>
       /\ \A w \in Conns :
            LET msg == GetMessage(cur[w].id) IN
            (cur[w].kind = "edit_message" /\ Load(w, TRUE) /\ msg # NoMsg
                /\ msg.sender # user[w]) =>
                    pc'[w] = "loop" /\ UNCHANGED <<db, sent, bc>>
       /\ \A x \in Conns :
            (Len(sent'[x]) = Len(sent[x]) + 1
                /\ sent'[x][Len(sent'[x])].event = "message_edited") =>
                    LET p == sent'[x][Len(sent'[x])] IN
                    /\ p.eid \in committed
                    /\ GetMessage(p.id) # NoMsg => p.by = GetMessage(p.id).sender
      ]_vars

\* an edit_message with a text, sent by a participant who is not the sender of
\* the message it names, has found the message
C12_Witness ==
    \E w \in Conns :
        LET msg == GetMessage(cur[w].id) IN
        /\ pc[w] = "load" /\ cur[w].kind = "edit_message" /\ cur[w].text # <<>>
        /\ msg # NoMsg /\ msg.conv = conv[w] /\ msg.sender # user[w]
        /\ msg.text = <<"a">> /\ ~msg.is_edited

\* C13: every committed message row has is_edited true exactly when its
\* edited_at is set (0 stands for NULL).
C13_EditedIffStamped ==
    \A k \in MsgIds :
        msgs[k] # NoMsg => (msgs[k].is_edited <=> msgs[k].edited_at # 0)

\* a committed row that an edit_message of its sender has reached
C13_Witness ==
    \E k \in MsgIds : \E w \in Conns :
        /\ msgs[k] # NoMsg /\ ~msgs[k].is_edited /\ msgs[k].edited_at = 0
        /\ pc[w] = "load" /\ cur[w].kind = "edit_message" /\ cur[w].id = k
        /\ msgs[k].sender = user[w] /\ msgs[k].conv = conv[w]

Count(u, list) == Cardinality({i \in 1..Len(list) : list[i] = u})

\* C14: once delete_message mode self has been handled for a message of the
\* connection's conversation, the message's deleted_for holds the caller's id
\* exactly once.
C14_SelfDeleteRecorded ==
    [][\A w \in Conns :
        LET msg == GetMessage(cur[w].id) IN
        (/\ cur[w].kind = "delete_message" /\ cur[w].mode = "self"
         /\ Load(w, TRUE)
         /\ msg # NoMsg
         /\ msg.conv = conv[w]
         /\ pc'[w] = "loop")
        => /\ msgs'[cur[w].id] # NoMsg
           /\ Count(user[w], msgs'[cur[w].id].deleted_for) = 1
      ]_vars

\* C15: delete_message mode self for a message of the connection's
\* conversation goes on to answer the requester: the handler does not return
\* at the conversation test.
C15_SelfDeleteAnswered ==
    [][\A w \in Conns :
        LET msg == GetMessage(cur[w].id) IN
        (/\ cur[w].kind = "delete_message" /\ cur[w].mode = "self"
         /\ Load(w, TRUE)
         /\ msg # NoMsg
         /\ msg.conv = conv[w])
        => /\ pc'[w] \in {"commit", "reply"}
           /\ UNCHANGED <<db, sent>>
      ]_vars

\* C16: a step removes a message row only on behalf of the message's sender, as
\* the commit of the sender's delete_message mode all or as the sender's call of
\* the REST endpoint; a delete_message mode all from anyone else returns with
\* the tables and every connection's inbox as they were; and message_deleted
\* mode all is sent only for a committed delete, of a row that is gone.
C16_OnlySenderDeletesForAll ==
    [][/\ \A k \in MsgIds :
            (msgs[k] # NoMsg /\ msgs'[k] = NoMsg) =>
                \/ \E w \in Conns :
                    /\ pc[w] = "commit" /\ pc'[w] = "broadcast"
                    /\ cur[w].kind = "delete_message" /\ cur[w].mode = "all"
                    /\ cur[w].id = k /\ user[w] = msgs[k].sender
                \/ \E u \in Users :
                    /\ u = msgs[k].sender
                    /\ DeleteMessageForAll(u, k)
       /\ \A w \in Conns :
            LET msg == GetMessage(cur[w].id) IN
            (cur[w].kind = "delete_message" /\ cur[w].mode = "all" /\ Load(w, TRUE)
                /\ msg # NoMsg /\ msg.sender # user[w]) =>
                    pc'[w] = "loop" /\ UNCHANGED <<db, sent, bc>>
       /\ \A x \in Conns :
            (Len(sent'[x]) = Len(sent[x]) + 1
                /\ sent'[x][Len(sent'[x])].event = "message_deleted"
                /\ sent'[x][Len(sent'[x])].mode = "all") =>
                    LET p == sent'[x][Len(sent'[x])] IN
                    p.eid \in committed /\ GetMessage(p.id) = NoMsg
      ]_vars

\* a delete_message mode all, sent by a participant who is not the sender of
\* the message it names, has found the message, which the conversation's
\* pointer refers to
C16_Witness ==
    \E w \in Conns :
        LET msg == GetMessage(cur[w].id) IN
        /\ pc[w] = "load" /\ cur[w].kind = "delete_message" /\ cur[w].mode = "all"
        /\ msg # NoMsg /\ msg.conv = conv[w] /\ msg.sender # user[w]
        /\ lastMsg[conv[w]] = cur[w].id

\* C17: the last-message pointer of every conversation is null (0) or the id of
\* a message row that exists.
C17_PointerNullOrLive ==
    \A c \in Convs : lastMsg[c] = 0 \/ GetMessage(lastMsg[c]) # NoMsg

\* the one message a conversation had, which its pointer referred to, has been
\* deleted, and the pointer is null
C17_Witness ==
    \E k \in MsgIds : \E x \in Conns :
        /\ committed = {k} /\ msgs[k] = NoMsg
        /\ SentTo(x, Payload("new_message", k, user[x], "", k))
        /\ lastMsg[conv[x]] = 0

\* C18: the sender's edit_message and delete_message mode all for a message of
\* the connection's conversation take effect, each before the next event is
\* taken: the edit handler does not return without having gone to its commit,
\* and the delete handler does not return with the row still there.
C18_SenderEditThenDelete ==
    [][\A w \in Conns :
        LET msg == GetMessage(cur[w].id) IN
        (/\ Load(w, TRUE)
         /\ msg # NoMsg
         /\ msg.conv = conv[w]
         /\ msg.sender = user[w])
        => /\ (cur[w].kind = "edit_message" /\ cur[w].text # <<>>) =>
                pc'[w] = "commit" /\ pend'[w].op = "edit"
           /\ (cur[w].kind = "delete_message" /\ cur[w].mode = "all") =>
                pc'[w] = "commit" /\ pend'[w].op = "delete_all"
      ]_vars

\* C19: the tick of an idle session whose transport is writable renews the
\* status key: after it the key of the session's user is there with the full
\* TTL, the session is registered and about to be sent its ping; and the ping
\* leaves the session registered and in its receive loop.
C19_TickRenewsStatus ==
    [][\A w \in Conns :
        /\ (stream[w] = "open" /\ WaitTimesOut(w)) =>
                /\ pc'[w] = "ping" /\ Registered(w)'
                /\ status'[user[w]] = OnlineKey
        /\ (pc[w] = "ping" /\ stream[w] = "open" /\ Ping(w)) =>
                /\ pc'[w] = "loop" /\ Registered(w)'
                /\ sent'[w] = Append(sent[w], PingPayload)
      ]_vars

CleanupPcs == {"cl_last_seen", "cl_delete", "ended"}

\* C20: a ping that fails takes the session out of its loop and into cleanup,
\* the connection being off the registry at once; a session in cleanup never
\* goes back to its loop or onto the registry; and its cleanup writes
\* last_seen and then deletes the user's status key, each store command that
\* succeeds taking effect.
C20_FailedPingEndsSession ==
    [][\A w \in Conns :
        /\ (pc[w] = "ping" /\ stream[w] = "gone" /\ Ping(w)) =>
                /\ pc'[w] = "cl_last_seen"
                /\ ~Registered(w)'
                /\ trace'[w] = <<"deregister">>
                /\ UNCHANGED sent
        /\ pc[w] \in CleanupPcs =>
                /\ pc'[w] \in CleanupPcs
                /\ ~Registered(w) => ~Registered(w)'
        /\ (pc[w] = "cl_last_seen" /\ CleanupLastSeen(w, TRUE)) =>
                pc'[w] = "cl_delete" /\ lastSeen'[user[w]] # 0
        /\ (pc[w] = "cl_delete" /\ CleanupDelete(w, TRUE)) =>
                pc'[w] = "ended" /\ status'[user[w]] = NoKey
      ]_vars

\* the only session there has been idled, found its peer gone when it pinged,
\* and has ended with the connection off the registry, last_seen written and
\* the status key deleted
C20_Witness ==
    \E w \in Conns :
        /\ \A v \in Conns \ {w} : pc[v] = "new"
        /\ nTimeouts = 1 /\ nEvents = 0
        /\ pc[w] = "ended" /\ sent[w] = <<>>
        /\ trace[w] = <<"deregister", "last_seen", "delete">>
        /\ ~Registered(w) /\ connections = <<>>
        /\ lastSeen[user[w]] # 0 /\ status[user[w]] = NoKey

\* C21: a frame whose discriminator is missing or is none of the four known
\* ones changes no table, no store key and no registry entry, has nothing sent
\* to any connection, and leaves its session in the receive loop.
C21_UnknownEventIgnored ==
    [][\A w \in Conns : \A e \in IgnoredEvents :
        Receive(w, e) =>
            /\ UNCHANGED <<db, store, connections, sent, stream, trace>>
            /\ pc'[w] = "loop" /\ cur'[w] = NoEvent /\ pend'[w] = NoPend
            /\ \A x \in Conns \ {w} : pc'[x] = pc[x]
      ]_vars

\* a registered session has taken a frame of no known kind, the only frame so
\* far, and waits in its loop again; nothing was sent, nothing is stored
C21_Witness ==
    \E w \in Conns :
        /\ nEvents = 1 /\ nTimeouts = 0
        /\ pc[w] = "loop" /\ Registered(w) /\ cur[w] = NoEvent
        /\ \A x \in Conns : sent[x] = <<>>
        /\ \A k \in MsgIds : msgs[k] = NoMsg
        /\ \E x \in Conns \ {w} : pc[x] = "loop" /\ conv[x] = conv[w]

\* C22: a frame that is not valid JSON does not end the session: after it the
\* connection is still registered and the session is still in its loop or in
\* a handler, ready for the next event.
C22_MalformedFrameSurvived ==
    [][\A w \in Conns :
        ReceiveError(w) => Registered(w)' /\ pc'[w] \in ActivePcs
      ]_vars

InMem(x, seq) == \E i \in 1..Len(seq) : seq[i] = x
Disconnecting(u) == \E w \in Conns : user[w] = u /\ pc[w] \in {"cl_last_seen", "cl_delete"}
DisconnectRecorded(u) == \E w \in Conns : user[w] = u /\ InMem("last_seen", trace[w])

\* C23: a chat session that deletes the status key has written last_seen
\* before; a status query that reads the status key of a user whose chat
\* session is disconnecting and has not deleted the key yet answers online;
\* and one that reads last_seen after a disconnect of the user has written it
\* answers with a last_seen that is not null.
C23_QueryDuringDisconnect ==
    [][\A u \in Users :
        /\ \A w \in Conns : InMem("delete", trace[w]) => lastSeen[user[w]] # 0
        /\ (query.user = u /\ GetStatusKey(TRUE) /\ Disconnecting(u) /\ status[u] # NoKey)
                => query'.status = "online"
        /\ (query.user = u /\ GetLastSeenKey(TRUE) /\ DisconnectRecorded(u))
                => query'.last_seen # 0
      ]_vars

\* C24: while a session waits in its loop and no wait of any session has
\* lasted the idle timeout (every frame came less than IdleTimeoutSecs, hence
\* less than the TTL, after the one before), the status key of its user is
\* there.
C24_EventsKeepStatus ==
    \A w \in Conns :
        (pc[w] = "loop" /\ nTimeouts = 0 /\ idle[w] < IdleTimeoutSecs)
            => status[user[w]] # NoKey

\* C25: the heartbeat tick of a live session leaves the status key of its user
\* in the store, whatever other sessions of the same user have done (a second
\* session that disconnected included).
C25_KeyWhileHeartbeating ==
    [][\A w \in Conns :
        IdleTimeout(w, TRUE) => status'[user[w]] # NoKey
      ]_vars

\* C26: a status query that reads the status key of a user whom a chat session
\* in its loop has marked online, the key being in the store, answers online;
\* and a query that answers offline names a last_seen only if a disconnect of
\* the user has written one.
C26_OnlineAfterAccept ==
    [][\A u \in Users :
        /\ (/\ query.user = u /\ GetStatusKey(TRUE)
            /\ status[u] = OnlineKey
            /\ \E w \in Conns : user[w] = u /\ pc[w] \in ActivePcs)
                => query'.status = "online"
        /\ (query.user = u /\ GetLastSeenKey(TRUE) /\ query'.last_seen # 0)
                => (lastSeen[u] # 0 \/ lastSeen1[u] # 0)
      ]_vars

\* C27: a store that refuses a write does not end the session: after a failed
\* r.set at accept and after a failed r.expire on a tick the session is (still)
\* Active, the registry is as it was, and a session that has ended is never
\* left on the registry.
C27_StoreFailureHarmless ==
    [][\A w \in Conns :
        /\ MarkOnline(w, FALSE) => pc'[w] \in ActivePcs /\ UNCHANGED connections
        /\ IdleTimeout(w, FALSE) => pc'[w] \in ActivePcs /\ UNCHANGED connections
        /\ pc'[w] = "ended" => ~Registered(w)'
      ]_vars

\* C28: a status query that finds the store down, at either of its two reads,
\* answers offline.
C28_StoreDownReadsOffline ==
    [][(GetStatusKey(FALSE) \/ GetLastSeenKey(FALSE)) => query'.status = "offline"]_vars

\* C29: under a fair event loop, every session that is Active when its stream
\* is closed, by a close frame or by a lost link, ends: its connection is off
\* the registry, last_seen is written and the status key deleted.
C29_ClosedStreamEndsSession ==
    \A w \in Conns :
        (pc[w] \in ActivePcs /\ stream[w] # "open")
            ~> (/\ pc[w] = "ended" /\ ~Registered(w)
                /\ InMem("last_seen", trace[w]) /\ InMem("delete", trace[w]))

\* a session whose link was lost without a close frame, before any frame
\* came, is in its cleanup: the tick that followed the loss found the ping
\* undeliverable; the connection is off the registry and last_seen is written
C29_Witness ==
    \E w \in Conns :
        /\ stream[w] = "lost" /\ pc[w] = "cl_delete" /\ ~Registered(w)
        /\ trace[w] = <<"deregister", "last_seen">>
        /\ nEvents = 0 /\ sent[w] = <<>>
        /\ lastSeen[user[w]] # 0
        /\ \E x \in Conns \ {w} : pc[x] = "loop" /\ user[x] # user[w]

\* the session's cleanup has finished
Closed(w) == pc[w] = "ended" /\ InMem("deregister", trace[w])

\* C30: a session that is Closed stays Closed: its connection is not on the
\* registry and never is again, no frame is taken from it, its handler state
\* and its cleanup record stay as they are, and nothing is delivered to it,
\* a broadcast that still has the connection on its list included.
C30_ClosedIsTerminal ==
    [][\A w \in Conns :
        Closed(w) =>
            /\ ~Registered(w) /\ ~Registered(w)'
            /\ Closed(w)'
            /\ \A e \in Events : ~Receive(w, e)
            /\ sent'[w] = sent[w] /\ cur'[w] = cur[w] /\ trace'[w] = trace[w]
      ]_vars

\* a session is Closed while the broadcast of another session, begun when the
\* connection was registered, still has it to serve
C30_Witness ==
    \E w \in Conns : \E x \in Conns \ {w} :
        /\ Closed(w) /\ ~Registered(w)
        /\ pc[x] = "send" /\ w \in BroadcastTargets(x)


\* ---------------------------------------------------------------------
\* C31: a recipient whose send blocks delays only the task that broadcasts to
\* it: a broadcast that another task issues in a different conversation while
\* the first send is blocked runs to its end, the first send still blocked.
Blocked(w) ==
    /\ pc[w] = "send"
    /\ \E x \in BroadcastTargets(w) : stream[x] = "stalled"

C31_OtherConversationCompletes ==
    \A w \in Conns : \A y \in Conns \ {w} :
        (Blocked(w) /\ pc[y] = "broadcast" /\ conv[y] # conv[w])
            ~> (Blocked(w) /\ pc[y] \notin {"broadcast", "send"})

\* the later message of the other conversation went out to its sender and the
\* handler is back in its loop, while the earlier broadcast is still blocked
C31_Witness ==
    \E w \in Conns : \E y \in Conns \ {w} :
        /\ Blocked(w) /\ conv[y] # conv[w]
        /\ pc[y] = "loop" /\ Registered(y)
        /\ \E i \in 1..Len(sent[y]) :
              /\ sent[y][i].event = "new_message"
              /\ sent[y][i].eid > cur[w].eid


CleanedUp(w) ==
    /\ pc[w] = "ended" /\ ~Registered(w)
    /\ CleanupSteps(w) = <<"deregister", "last_seen", "delete">>

C33_ErrorEventDecides ==
    /\ [][\A w \in Conns :
            (pc[w] = "raised" /\ SendToRequester(w)) =>
                IF stream[w] = "open"
                THEN /\ pc'[w] = "loop" /\ Registered(w)'
                     /\ sent'[w] = Append(sent[w], ErrorPayload(w))
                     /\ trace'[w] = trace[w]
                ELSE /\ pc'[w] = "cl_last_seen" /\ ~Registered(w)'
                     /\ sent'[w] = sent[w]
                     /\ trace'[w] = Append(Append(trace[w], "print"), "deregister")
         ]_vars
    /\ \A w \in Conns : (pc[w] = "raised" /\ stream[w] # "open") ~> CleanedUp(w)

\* the commit of the session's message failed, no error event reached the
\* requester, and the session has left its loop through the outer except clause
C33_Witness ==
    \E w \in Conns :
        /\ \E k \in MsgIds : <<k, w>> \in aborted
        /\ \A i \in 1..Len(sent[w]) : sent[w][i].event # "error"
        /\ InMem("print", trace[w])
        /\ CleanedUp(w)


InsertPending(c) ==
    \E w \in Conns : pc[w] = "commit" /\ conv[w] = c /\ pend[w].op = "insert"

MessagesOf(c) == {k \in MsgIds : msgs[k] # NoMsg /\ msgs[k].conv = c}

C35_PointerIsNewest ==
    \A c \in Convs :
        (~InsertPending(c) /\ MessagesOf(c) # {}) =>
            /\ lastMsg[c] \in MessagesOf(c)
            /\ \A k \in MessagesOf(c) : k <= lastMsg[c]


\* ---------------------------------------------------------------------
\* C36: broadcast returns normally whatever the registry does while it is
\* suspended: the step that ends it takes the handler back to the receive
\* loop, and no handler whose transaction is committed is where an exception
\* has left it.
C36_BroadcastReturns ==
    [][\A w \in Conns :
        /\ BroadcastFinish(w) => pc'[w] = "loop"
        /\ (pc'[w] = "raised" /\ pc[w] # "raised") => cur[w].eid \notin committed
      ]_vars


\* ---------------------------------------------------------------------
\* C37: the renewal of an idle session's tick changes nothing but the TTL of
\* its user's status key, and that only when the key is there: the value stays,
\* the TTL is StatusTtlSecs and no shorter than it was, an absent key stays
\* absent, every other key and every last_seen stay as they were.
C37_RefreshOnlyExtends ==
    [][\A w \in Conns :
        WaitTimesOut(w) =>
            LET u == user[w]
                k == status[u] IN
            /\ k = NoKey => status'[u] = NoKey
            /\ k # NoKey => /\ status'[u] # NoKey
                            /\ status'[u].val = k.val
                            /\ status'[u].ttl = StatusTtlSecs
                            /\ status'[u].ttl >= k.ttl
            /\ \A v \in Users \ {u} : status'[v] = status[v]
            /\ lastSeen' = lastSeen
      ]_vars

\* a session whose tick has renewed a key that had run out: the key is still
\* absent when the ping is due
C37_Witness ==
    \E w \in Conns :
        /\ pc[w] = "ping" /\ nTimeouts >= 1
        /\ status[user[w]] = NoKey
        /\ lastSeen[user[w]] = 0


\* ---------------------------------------------------------------------
\* C38: in every state a status key that exists, in the database of the chat
\* endpoint or in that of the presence endpoint, has a TTL, of StatusTtlSecs
\* at most.
HasTtl(k) == k.ttl \in 0..StatusTtlSecs

C38_KeyAlwaysExpires ==
    \A u \in Users :
        /\ status[u] # NoKey => HasTtl(status[u])
        /\ status1[u] # NoKey => HasTtl(status1[u])


\* ---------------------------------------------------------------------
\* C39: whatever is appended to a connection's inbox is either an answer of
\* its own session (an error event or the reply to delete_message mode self)
\* or the payload of a broadcast in progress on a connection of the same
\* conversation, whose copy of the registered set holds the recipient.
C39_BroadcastStaysInConversation ==
    [][\A x \in Conns :
        sent'[x] # sent[x] =>
            /\ Len(sent'[x]) = Len(sent[x]) + 1
            /\ LET p == sent'[x][Len(sent'[x])] IN
               \/ pc[x] \in {"reply", "raised"} /\ SendToRequester(x)
               \/ \E w \in Conns :
                    /\ pc[w] = "send" /\ p = BroadcastPayload(w)
                    /\ conv[w] = conv[x]
                    /\ x \in bc[w].snap
                    /\ WasRegistered(x)
      ]_vars

\* a broadcast of one conversation is over and its sender has the payload; the
\* connection registered under the other conversation, its stream writable,
\* has been sent nothing
C39_Witness ==
    \E w \in Conns : \E x \in Conns \ {w} :
        /\ LoopDone(w) /\ bc[w].att[w] = 1 /\ SentTo(w, BroadcastPayload(w))
        /\ Registered(x) /\ conv[x] # conv[w] /\ stream[x] = "open"
        /\ pc[x] = "loop"
        /\ sent[x] = <<>>


\* ---------------------------------------------------------------------
\* C40: a read_message, edit_message or delete_message that names a message of
\* another conversation than its connection's returns once the row is loaded,
\* with the tables and every inbox as they were; and no commit of a chat
\* handler changes or removes a row of another conversation than its
\* connection's.
MutatingKinds == {"read_message", "edit_message", "delete_message"}

C40_MutationsStayInConversation ==
    [][\A w \in Conns :
        /\ LET msg == GetMessage(cur[w].id) IN
           (/\ cur[w].kind \in MutatingKinds
            /\ Load(w, TRUE)
            /\ msg # NoMsg /\ msg.conv # conv[w])
           => /\ pc'[w] = "loop"
              /\ UNCHANGED <<db, sent, connections>>
        /\ \A k \in MsgIds :
            (/\ pc[w] = "commit" /\ pc'[w] # "commit"
             /\ msgs[k] # NoMsg /\ msgs'[k] # msgs[k])
            => msgs[k].conv = conv[w]
      ]_vars

\* an event of a connection of one conversation names an existing message of
\* the other; the row is loaded next
C40_Witness ==
    \E w \in Conns :
        LET msg == GetMessage(cur[w].id) IN
        /\ pc[w] = "load" /\ cur[w].kind \in MutatingKinds
        /\ msg # NoMsg /\ msg.conv # conv[w]
        /\ VerifyUserInConversation(user[w], msg.conv)

====
